---- MODULE Spec2Model ----
(***************************************************************************)
(* Model of agentstack/packaging.py: the process runner                    *)
(* _wrap_command_with_callbacks, the child process it drives through       *)
(* subprocess.Popen, its callers install_project and create_venv and the   *)
(* module's path constants (Spec, FairSpec); and of agentstack/cli/cli.py: *)
(* get_validated_input, undo and configure_default_model (SpecCli).        *)
(*                                                                         *)
(* Text is a sequence of tokens.  The child's i-th write is the token i,   *)
(* so the emission order of a text is the numeric order of its tokens and  *)
(* the empty string is <<>>.  Popen.communicate() returns, per stream, all *)
(* the tokens written to that stream since the child started; it keeps     *)
(* them after a successful call, so a second call returns them again.      *)
(***************************************************************************)
EXTENDS Integers, Sequences, FiniteSets, TLC

\* Bound on the number of writes of one child process.
MaxEmit == 2

\* Exit code of a child ended by process.kill() (SIGKILL).
KILLED == -9

Streams == {"stdout", "stderr"}

ExitCodes == {0, 1}

VARIABLES
    caller,             \* who runs the runner: "idle", "direct", "install_project"
    pc,                 \* position inside _wrap_command_with_callbacks
    process,            \* TRUE once subprocess.Popen returned a handle
    popen_calls,        \* number of subprocess.Popen calls of this invocation
    child,              \* "none", "running", "exited"
    returncode,         \* exit code of the child once it exited
    emitted,            \* stream of each write of the child, in emission order
    all_lines,          \* the accumulated text
    on_progress_calls,  \* calls of on_progress: [arg, raised]
    on_complete_calls,  \* calls of on_complete: [arg, raised]
    on_error_calls,     \* calls of on_error: [arg, site, raised]
    read_failed,        \* a communicate() of the polling loop raised (not a timeout)
    drained,            \* the final drain completed without an exception
    pending,            \* what the try/except decided: "none", "True", "False", "raise"
    terminate_calls,    \* number of process.terminate() attempts
    terminate_raised,   \* process.terminate() raised
    result,             \* how the call ended: "none", "True", "False", "raise"
    ip_pc,              \* install_project: "none", "first", "second", "returned", "raised"
    ip_results,         \* install_project: outcome of each runner invocation
    read_timed_out,     \* a communicate(timeout=1.0) of this invocation timed out
    child_env,          \* env["VIRTUAL_ENV"] given to the child by _setup_env
    python_arg,         \* the argument after '--python' in the command
    platform,           \* sys.platform when the module was imported
    venv_exists,        \* the project's .venv directory exists
    gvi,                \* get_validated_input: its arguments and locals
    undo,               \* undo: its locals and the calls it made
    cdm,                \* configure_default_model: its locals and the calls it made
    default_model       \* the default_model field of the project's ConfigFile

runner_vars == <<pc, process, popen_calls, child, returncode, emitted, all_lines,
                 on_progress_calls, on_complete_calls, on_error_calls, read_failed,
                 drained, pending, terminate_calls, terminate_raised, result,
                 read_timed_out, child_env, python_arg>>

cli_vars == <<gvi, undo, cdm, default_model>>

vars == <<caller, runner_vars, ip_pc, ip_results, platform, venv_exists, cli_vars>>

Ended == {"returned", "escaped"}

\* A str argument of a callback: captured output, or the f-string built by the
\* outer handler ("Exception running command: ...").
Text(t) == [kind |-> "text", text |-> t]

Desc == [kind |-> "desc", text |-> <<>>]

\* What communicate() returns for one stream: everything the child wrote to it.
Tokens(em, s) ==
    LET F[i \in 0..Len(em)] ==
            IF i = 0 THEN <<>>
            ELSE IF em[i] = s THEN Append(F[i - 1], i) ELSE F[i - 1]
    IN F[Len(em)]

\* if chunk: on_progress(chunk); all_lines += chunk
\* st.exc records that a callback raised, which skips the rest of the block.
ForwardChunk_appendFirst(st, chunk, raises) ==
    IF st.exc \/ chunk = <<>> THEN st
    ELSE [all  |-> st.all \o chunk,
          prog |-> Append(st.prog, [arg |-> Text(chunk), raised |-> raises]),
          exc  |-> raises]

ForwardChunk(st, chunk, raises) ==
    IF st.exc \/ chunk = <<>> THEN st
    ELSE IF raises
         THEN [st EXCEPT !.prog = Append(@, [arg |-> Text(chunk), raised |-> TRUE]),
                         !.exc = TRUE]
         ELSE [st EXCEPT !.prog = Append(@, [arg |-> Text(chunk), raised |-> FALSE]),
                         !.all = @ \o chunk]

\* stdout, stderr = process.communicate(...) followed by the two forwarding blocks
ForwardBoth(all, prog, em, r1, r2) ==
    ForwardChunk(ForwardChunk([all |-> all, prog |-> prog, exc |-> FALSE],
                              Tokens(em, "stdout"), r1),
                 Tokens(em, "stderr"), r2)

\* if return_code == 0
Succeeded_inverted(rc) == rc # 0

Succeeded(rc) == rc = 0

\* the argument of on_error in the non-zero-exit branch
ExitErrorArg_errorMsg(all) == Desc

ExitErrorArg(all) == Text(all)

\* finally: an exception of process.terminate() is logged and swallowed
AfterTerminate_propagates(pend, raised) == IF raised THEN "raise" ELSE pend

AfterTerminate(pend, raised) == pend

\* if result is False (install_project, first invocation)
ShouldRetry_always(res) == TRUE

ShouldRetry(res) == res = "False"


(***************************************************************************)
(* Module constants.  A path is the sequence of its components; a path     *)
(* that starts with "/" is absolute.  The tool runs in the project         *)
(* directory, so conf.PATH and the working directory are both ProjectDir.  *)
(***************************************************************************)
Platforms == {"win32", "linux"}

\* conf.PATH
ProjectDir == <<"/", "project">>

\* VENV_DIR_NAME = Path(".venv")
VENV_DIR_NAME == <<".venv">>

\* DEFAULT_PYTHON_VERSION = "3.12"
DEFAULT_PYTHON_VERSION == <<"3.12">>

\* Path.absolute(): a relative path is taken from the working directory
Absolute(path) == IF path # <<>> /\ path[1] = "/" THEN path ELSE ProjectDir \o path

\* a / b: an absolute right operand replaces the left one
Join(a, b) == IF b # <<>> /\ b[1] = "/" THEN b ELSE a \o b

\* _get_executeable_paths(): returns venv_path, venv_bin_dir, python_path
GetExecuteablePaths(plat) ==
    LET python_path == IF plat = "win32" THEN <<".venv", "Scripts", "python.exe">>
                       ELSE <<".venv", "bin", "python">>
        venv_path == Join(ProjectDir, Absolute(VENV_DIR_NAME))
        venv_bin_dir == Join(venv_path, IF plat = "win32" THEN <<"Scripts">> ELSE <<"bin">>)
    IN <<venv_path, venv_bin_dir, python_path>>

\* PYTHON_EXECUTABLE, VENV_PATH, VENV_BIN_DIR = _get_executeable_paths()
PYTHON_EXECUTABLE(plat) == GetExecuteablePaths(plat)[1]

VENV_PATH(plat) == GetExecuteablePaths(plat)[2]

VENV_BIN_DIR(plat) == GetExecuteablePaths(plat)[3]

\* _setup_env(): env["VIRTUAL_ENV"] = str(VENV_PATH)
SetupEnv(plat) == VENV_PATH(plat)

\* `uv venv` creates the .venv directory when it succeeds
CreatesVenv(who, code) == who = "create_venv" /\ code = 0

\* the locals of the cli functions while none of them runs
GviIdle == [pc |-> "idle"]

UndoIdle == [pc |-> "idle"]

CdmIdle == [pc |-> "idle"]

RunnerFresh ==
    /\ pc' = "launch"
    /\ process' = FALSE
    /\ popen_calls' = 0
    /\ child' = "none"
    /\ returncode' = 0
    /\ emitted' = <<>>
    /\ all_lines' = <<>>
    /\ on_progress_calls' = <<>>
    /\ on_complete_calls' = <<>>
    /\ on_error_calls' = <<>>
    /\ read_failed' = FALSE
    /\ drained' = FALSE
    /\ pending' = "none"
    /\ terminate_calls' = 0
    /\ terminate_raised' = FALSE
    /\ result' = "none"
    /\ read_timed_out' = FALSE
    /\ child_env' = <<>>

\* the state between two top-level calls: no entity outlives an invocation
Reset ==
    /\ caller' = "idle"
    /\ pc' = "idle"
    /\ process' = FALSE
    /\ popen_calls' = 0
    /\ child' = "none"
    /\ returncode' = 0
    /\ emitted' = <<>>
    /\ all_lines' = <<>>
    /\ on_progress_calls' = <<>>
    /\ on_complete_calls' = <<>>
    /\ on_error_calls' = <<>>
    /\ read_failed' = FALSE
    /\ drained' = FALSE
    /\ pending' = "none"
    /\ terminate_calls' = 0
    /\ terminate_raised' = FALSE
    /\ result' = "none"
    /\ ip_pc' = "none"
    /\ ip_results' = <<>>
    /\ read_timed_out' = FALSE
    /\ child_env' = <<>>
    /\ python_arg' = <<>>
    /\ gvi' = GviIdle
    /\ undo' = UndoIdle
    /\ cdm' = CdmIdle
    /\ UNCHANGED <<platform, venv_exists, default_model>>

Init ==
    /\ caller = "idle"
    /\ pc = "idle"
    /\ process = FALSE
    /\ popen_calls = 0
    /\ child = "none"
    /\ returncode = 0
    /\ emitted = <<>>
    /\ all_lines = <<>>
    /\ on_progress_calls = <<>>
    /\ on_complete_calls = <<>>
    /\ on_error_calls = <<>>
    /\ read_failed = FALSE
    /\ drained = FALSE
    /\ pending = "none"
    /\ terminate_calls = 0
    /\ terminate_raised = FALSE
    /\ result = "none"
    /\ ip_pc = "none"
    /\ ip_results = <<>>
    /\ read_timed_out = FALSE
    /\ child_env = <<>>
    /\ python_arg = <<>>
    /\ platform \in Platforms
    /\ venv_exists \in BOOLEAN
    /\ gvi = GviIdle
    /\ undo = UndoIdle
    /\ cdm = CdmIdle
    /\ default_model = ""

(***************************************************************************)
(* The child process                                                       *)
(***************************************************************************)
ChildWrite ==
    /\ child = "running"
    /\ Len(emitted) < MaxEmit
    /\ \E s \in Streams : emitted' = Append(emitted, s)
    /\ UNCHANGED <<caller, pc, process, popen_calls, child, returncode, all_lines,
                   on_progress_calls, on_complete_calls, on_error_calls, read_failed,
                   drained, pending, terminate_calls, terminate_raised, result,
                   ip_pc, ip_results, read_timed_out, child_env, python_arg,
                   platform, venv_exists, cli_vars>>

ChildExit ==
    /\ child = "running"
    /\ child' = "exited"
    /\ \E c \in ExitCodes :
         /\ returncode' = c
         /\ venv_exists' = (venv_exists \/ CreatesVenv(caller, c))
    /\ UNCHANGED <<caller, pc, process, popen_calls, emitted, all_lines,
                   on_progress_calls, on_complete_calls, on_error_calls, read_failed,
                   drained, pending, terminate_calls, terminate_raised, result,
                   ip_pc, ip_results, read_timed_out, child_env, python_arg,
                   platform, cli_vars>>

(***************************************************************************)
(* _wrap_command_with_callbacks                                            *)
(***************************************************************************)
\* a direct call of the runner with '--python' PYTHON_EXECUTABLE (install, remove, upgrade)
Call ==
    /\ caller = "idle"
    /\ caller' = "direct"
    /\ RunnerFresh
    /\ python_arg' = PYTHON_EXECUTABLE(platform)
    /\ UNCHANGED <<ip_pc, ip_results, platform, venv_exists, cli_vars>>

\* process = subprocess.Popen(...) returns a handle
Popen ==
    /\ pc = "launch"
    /\ popen_calls' = popen_calls + 1
    /\ process' = TRUE
    /\ child' = "running"
    /\ child_env' = SetupEnv(platform)
    /\ pc' = "poll"
    /\ UNCHANGED <<caller, returncode, emitted, all_lines, on_progress_calls,
                   on_complete_calls, on_error_calls, read_failed, drained, pending,
                   terminate_calls, terminate_raised, result, ip_pc, ip_results, read_timed_out, python_arg,
                   platform, venv_exists, cli_vars>>

\* subprocess.Popen(...) raises: process stays None, the outer handler runs
PopenFails ==
    /\ pc = "launch"
    /\ popen_calls' = popen_calls + 1
    /\ pc' = "handler"
    /\ UNCHANGED <<caller, process, child, returncode, emitted, all_lines,
                   on_progress_calls, on_complete_calls, on_error_calls, read_failed,
                   drained, pending, terminate_calls, terminate_raised, result,
                   ip_pc, ip_results, read_timed_out, child_env, python_arg,
                   platform, venv_exists, cli_vars>>

\* while process.poll() is None
Poll ==
    /\ pc = "poll"
    /\ pc' = IF child = "running" THEN "read" ELSE "drain"
    /\ UNCHANGED <<caller, process, popen_calls, child, returncode, emitted, all_lines,
                   on_progress_calls, on_complete_calls, on_error_calls, read_failed,
                   drained, pending, terminate_calls, terminate_raised, result,
                   ip_pc, ip_results, read_timed_out, child_env, python_arg,
                   platform, venv_exists, cli_vars>>

\* communicate(timeout=1.0) raises TimeoutExpired: continue
ReadTimeout_kills ==
    /\ pc = "read"
    /\ child = "running"
    /\ read_timed_out' = TRUE
    /\ child' = "exited"
    /\ returncode' = KILLED
    /\ pc' = "poll"
    /\ UNCHANGED <<caller, process, popen_calls, emitted, all_lines,
                   on_progress_calls, on_complete_calls, on_error_calls, read_failed,
                   drained, pending, terminate_calls, terminate_raised, result,
                   ip_pc, ip_results, child_env, python_arg,
                   platform, venv_exists, cli_vars>>

ReadTimeout ==
    /\ pc = "read"
    /\ child = "running"
    /\ read_timed_out' = TRUE
    /\ pc' = "poll"
    /\ UNCHANGED <<caller, process, popen_calls, child, returncode, emitted, all_lines,
                   on_progress_calls, on_complete_calls, on_error_calls, read_failed,
                   drained, pending, terminate_calls, terminate_raised, result,
                   ip_pc, ip_results, child_env, python_arg,
                   platform, venv_exists, cli_vars>>

\* communicate(timeout=1.0) returns: the child exited within the timeout.
\* An exception of on_progress is caught by the inner handler: break.
ReadOk ==
    /\ pc = "read"
    /\ child = "exited"
    /\ \E r1, r2 \in BOOLEAN :
         LET st == ForwardBoth(all_lines, on_progress_calls, emitted, r1, r2)
         IN /\ all_lines' = st.all
            /\ on_progress_calls' = st.prog
            /\ pc' = IF st.exc THEN "drain" ELSE "poll"
    /\ UNCHANGED <<caller, process, popen_calls, child, returncode, emitted,
                   on_complete_calls, on_error_calls, read_failed, drained, pending,
                   terminate_calls, terminate_raised, result, ip_pc, ip_results, read_timed_out, child_env, python_arg,
                   platform, venv_exists, cli_vars>>

\* communicate(timeout=1.0) raises another exception: logged, break
ReadRaises_reraises ==
    /\ pc = "read"
    /\ read_failed' = TRUE
    /\ child' = "exited"
    /\ returncode' = IF child = "running" THEN KILLED ELSE returncode
    /\ pc' = "handler"
    /\ UNCHANGED <<caller, process, popen_calls, emitted, all_lines,
                   on_progress_calls, on_complete_calls, on_error_calls, drained,
                   pending, terminate_calls, terminate_raised, result, ip_pc, ip_results,
                   read_timed_out, child_env, python_arg,
                   platform, venv_exists, cli_vars>>

ReadRaises_kills ==
    /\ pc = "read"
    /\ read_failed' = TRUE
    /\ child' = "exited"
    /\ returncode' = IF child = "running" THEN KILLED ELSE returncode
    /\ pc' = "drain"
    /\ UNCHANGED <<caller, process, popen_calls, emitted, all_lines,
                   on_progress_calls, on_complete_calls, on_error_calls, drained,
                   pending, terminate_calls, terminate_raised, result, ip_pc, ip_results,
                   read_timed_out, child_env, python_arg,
                   platform, venv_exists, cli_vars>>

ReadRaises ==
    /\ pc = "read"
    /\ read_failed' = TRUE
    /\ pc' = "drain"
    /\ UNCHANGED <<caller, process, popen_calls, child, returncode, emitted, all_lines,
                   on_progress_calls, on_complete_calls, on_error_calls, drained,
                   pending, terminate_calls, terminate_raised, result, ip_pc, ip_results, read_timed_out, child_env, python_arg,
                   platform, venv_exists, cli_vars>>

\* the final process.communicate() returns once the child has exited.
\* An exception of on_progress reaches the handler of the reading block:
\* process.kill() (nothing to kill, the child has exited) and raise.
DrainOk ==
    /\ pc = "drain"
    /\ child = "exited"
    /\ \E r1, r2 \in BOOLEAN :
         LET st == ForwardBoth(all_lines, on_progress_calls, emitted, r1, r2)
         IN /\ all_lines' = st.all
            /\ on_progress_calls' = st.prog
            /\ drained' = ~st.exc
            /\ pc' = IF st.exc THEN "handler" ELSE "exit_eval"
    /\ UNCHANGED <<caller, process, popen_calls, child, returncode, emitted,
                   on_complete_calls, on_error_calls, read_failed, pending,
                   terminate_calls, terminate_raised, result, ip_pc, ip_results, read_timed_out, child_env, python_arg,
                   platform, venv_exists, cli_vars>>

\* the final process.communicate() raises: process.kill() and raise
DrainRaises ==
    /\ pc = "drain"
    /\ child' = "exited"
    /\ returncode' = IF child = "running" THEN KILLED ELSE returncode
    /\ pc' = "handler"
    /\ UNCHANGED <<caller, process, popen_calls, emitted, all_lines, on_progress_calls,
                   on_complete_calls, on_error_calls, read_failed, drained, pending,
                   terminate_calls, terminate_raised, result, ip_pc, ip_results, read_timed_out, child_env, python_arg,
                   platform, venv_exists, cli_vars>>

\* return_code = process.wait() and the two branches on it.
\* An exception of on_complete or on_error is caught by the outer handler.
ExitEval ==
    /\ pc = "exit_eval"
    /\ \E raises \in BOOLEAN :
         /\ IF Succeeded(returncode)
            THEN /\ on_complete_calls' = Append(on_complete_calls,
                                                [arg |-> Text(all_lines), raised |-> raises])
                 /\ on_error_calls' = on_error_calls
                 /\ pending' = IF raises THEN pending ELSE "True"
            ELSE /\ on_error_calls' = Append(on_error_calls,
                                             [arg |-> ExitErrorArg(all_lines),
                                              site |-> "exit", raised |-> raises])
                 /\ on_complete_calls' = on_complete_calls
                 /\ pending' = IF raises THEN pending ELSE "False"
         /\ pc' = IF raises THEN "handler" ELSE "finally"
    /\ UNCHANGED <<caller, process, popen_calls, child, returncode, emitted, all_lines,
                   on_progress_calls, read_failed, drained, terminate_calls,
                   terminate_raised, result, ip_pc, ip_results, read_timed_out, child_env, python_arg,
                   platform, venv_exists, cli_vars>>

\* except Exception as e: on_error(error_msg); return False.
\* An exception of on_error leaves the handler and propagates after finally.
Handler ==
    /\ pc = "handler"
    /\ \E raises \in BOOLEAN :
         /\ on_error_calls' = Append(on_error_calls,
                                     [arg |-> Desc, site |-> "outer", raised |-> raises])
         /\ pending' = IF raises THEN "raise" ELSE "False"
    /\ pc' = "finally"
    /\ UNCHANGED <<caller, process, popen_calls, child, returncode, emitted, all_lines,
                   on_progress_calls, on_complete_calls, read_failed, drained,
                   terminate_calls, terminate_raised, result, ip_pc, ip_results, read_timed_out, child_env, python_arg,
                   platform, venv_exists, cli_vars>>

\* finally: if process: try: process.terminate() except Exception: log
Finally ==
    /\ pc = "finally"
    /\ \E raises \in BOOLEAN :
         /\ terminate_calls' = IF process THEN terminate_calls + 1 ELSE terminate_calls
         /\ terminate_raised' = (process /\ raises)
         /\ result' = AfterTerminate(pending, process /\ raises)
    /\ pc' = IF result' = "raise" THEN "escaped" ELSE "returned"
    /\ UNCHANGED <<caller, process, popen_calls, child, returncode, emitted, all_lines,
                   on_progress_calls, on_complete_calls, on_error_calls, read_failed,
                   drained, pending, ip_pc, ip_results, read_timed_out, child_env, python_arg,
                   platform, venv_exists, cli_vars>>

\* the direct caller has the result; nothing of the invocation outlives it
Return ==
    /\ caller = "direct"
    /\ pc \in Ended
    /\ Reset

RunnerStep ==
    \/ Popen \/ PopenFails \/ Poll \/ ReadTimeout \/ ReadOk \/ ReadRaises
    \/ DrainOk \/ DrainRaises \/ ExitEval \/ Handler \/ Finally

(***************************************************************************)
(* install_project                                                         *)
(***************************************************************************)
\* get_uv_bin() raises (uv is not importable): the except clause re-raises
InstallProjectNoUv ==
    /\ caller = "idle"
    /\ caller' = "install_project"
    /\ ip_pc' = "raised"
    /\ ip_results' = <<>>
    /\ UNCHANGED <<runner_vars, platform, venv_exists, cli_vars>>

\* first invocation: uv pip install --python PYTHON_EXECUTABLE .
InstallProject ==
    /\ caller = "idle"
    /\ caller' = "install_project"
    /\ ip_pc' = "first"
    /\ ip_results' = <<>>
    /\ RunnerFresh
    /\ python_arg' = PYTHON_EXECUTABLE(platform)
    /\ UNCHANGED <<platform, venv_exists, cli_vars>>

\* if result is False: second invocation with --no-cache
InstallProjectRetry ==
    /\ caller = "install_project"
    /\ ip_pc = "first"
    /\ pc = "returned"
    /\ ShouldRetry(result)
    /\ ip_results' = Append(ip_results, result)
    /\ ip_pc' = "second"
    /\ RunnerFresh
    /\ python_arg' = PYTHON_EXECUTABLE(platform)
    /\ UNCHANGED <<caller, platform, venv_exists, cli_vars>>

\* the end of install_project: normal return, raise Exception("Installation
\* failed even with --no-cache"), or an exception of the runner re-raised
InstallProjectEnd ==
    /\ caller = "install_project"
    /\ ip_pc \in {"first", "second"}
    /\ pc \in Ended
    /\ ~(ip_pc = "first" /\ pc = "returned" /\ ShouldRetry(result))
    /\ ip_results' = Append(ip_results, result)
    /\ ip_pc' = IF result = "True" THEN "returned" ELSE "raised"
    /\ UNCHANGED <<caller, runner_vars, platform, venv_exists, cli_vars>>

InstallProjectReturn ==
    /\ caller = "install_project"
    /\ ip_pc \in {"returned", "raised"}
    /\ Reset

(***************************************************************************)
(* create_venv                                                             *)
(***************************************************************************)
\* if os.path.exists(conf.PATH / VENV_DIR_NAME): return
VenvMissing_always(exists) == TRUE

VenvMissing(exists) == ~exists

\* the venv already exists: create_venv returns at once
CreateVenvSkip ==
    /\ caller = "idle"
    /\ ~VenvMissing(venv_exists)
    /\ caller' = "create_venv"
    /\ pc' = "skipped"
    /\ UNCHANGED <<process, popen_calls, child, returncode, emitted, all_lines,
                   on_progress_calls, on_complete_calls, on_error_calls, read_failed,
                   drained, pending, terminate_calls, terminate_raised, result,
                   ip_pc, ip_results, read_timed_out, child_env, python_arg,
                   platform, venv_exists, cli_vars>>

\* get_uv_bin() raises while the command is built: create_venv raises
CreateVenvNoUv ==
    /\ caller = "idle"
    /\ VenvMissing(venv_exists)
    /\ caller' = "create_venv"
    /\ pc' = "no_uv"
    /\ UNCHANGED <<process, popen_calls, child, returncode, emitted, all_lines,
                   on_progress_calls, on_complete_calls, on_error_calls, read_failed,
                   drained, pending, terminate_calls, terminate_raised, result,
                   ip_pc, ip_results, read_timed_out, child_env, python_arg,
                   platform, venv_exists, cli_vars>>

\* uv venv --python python_version, run by the runner
CreateVenv ==
    /\ caller = "idle"
    /\ VenvMissing(venv_exists)
    /\ caller' = "create_venv"
    /\ RunnerFresh
    /\ python_arg' = DEFAULT_PYTHON_VERSION
    /\ UNCHANGED <<ip_pc, ip_results, platform, venv_exists, cli_vars>>

\* create_venv ignores the result of the runner
CreateVenvReturn ==
    /\ caller = "create_venv"
    /\ pc \in Ended \cup {"skipped", "no_uv"}
    /\ Reset

Next ==
    \/ Call \/ Return
    \/ ChildWrite \/ ChildExit
    \/ Popen \/ PopenFails \/ Poll \/ ReadTimeout \/ ReadOk \/ ReadRaises
    \/ DrainOk \/ DrainRaises \/ ExitEval \/ Handler \/ Finally
    \/ InstallProjectNoUv \/ InstallProject \/ InstallProjectRetry
    \/ InstallProjectEnd \/ InstallProjectReturn
    \/ CreateVenvSkip \/ CreateVenvNoUv \/ CreateVenv \/ CreateVenvReturn

Spec == Init /\ [][Next]_vars

\* The calling thread always takes its next step; the child and the failures
\* of the runtime (a read that raises) are not forced to happen.
FairSpec == Spec /\ WF_vars(RunnerStep)

(***************************************************************************)
(* agentstack/cli/cli.py: get_validated_input                              *)
(***************************************************************************)
\* Bound on the min_length argument and on the length of the text typed.
MaxLength == 2

\* what the user can type: its length, whether it is snake_case, and whether
\* the caller's validate_func accepts it
Values == [len : 0..MaxLength, snake : BOOLEAN, valid : BOOLEAN]

\* validate=validate_func or validator_not_empty(min_length) if min_length else None
\* which Python reads as (validate_func or validator_not_empty(...)) if min_length else None
ValidateArg(validate_func, min_length) ==
    IF min_length # 0
    THEN IF validate_func # "None" THEN "validate_func" ELSE "validator_not_empty"
    ELSE "None"

\* inquirer.text asks again until its validate argument accepts the text
Accepts(validate, min_length, v) ==
    CASE validate = "None" -> TRUE
      [] validate = "validate_func" -> v.valid
      [] validate = "validator_not_empty" -> v.len >= min_length

other_cli_vars == <<runner_vars, ip_pc, ip_results, platform, venv_exists>>

GetValidatedInputCall ==
    /\ caller = "idle"
    /\ caller' = "get_validated_input"
    /\ \E f \in {"None", "custom"}, n \in 0..MaxLength, sc \in BOOLEAN :
         gvi' = [pc |-> "prompt", validate_func |-> f, min_length |-> n,
                 snake_case |-> sc, validate |-> "unset", prompts |-> 0,
                 value |-> [len |-> 0, snake |-> FALSE, valid |-> FALSE],
                 outcome |-> "none"]
    /\ UNCHANGED <<other_cli_vars, undo, cdm, default_model>>

\* value = inquirer.text(...); the snake_case test; return value
GetValidatedInputPrompt ==
    /\ caller = "get_validated_input"
    /\ gvi.pc = "prompt"
    /\ LET validate == ValidateArg(gvi.validate_func, gvi.min_length)
       IN \E v \in Values :
            /\ Accepts(validate, gvi.min_length, v)
            /\ gvi' = [gvi EXCEPT !.pc = "done",
                                  !.validate = validate,
                                  !.prompts = @ + 1,
                                  !.value = v,
                                  !.outcome = IF gvi.snake_case /\ ~v.snake
                                              THEN "ValidationError" ELSE "returned"]
    /\ UNCHANGED <<caller, other_cli_vars, undo, cdm, default_model>>

(***************************************************************************)
(* agentstack/cli/cli.py: undo                                             *)
(***************************************************************************)
\* Bound on the number of uncommitted files.
MaxChanged == 2

\* if changed_files: ... if not should_continue: return
Reverts_always(changed_files, should_continue) == TRUE

Reverts(changed_files, should_continue) ==
    ~(changed_files # 0 /\ should_continue # "yes")

UndoCall ==
    /\ caller = "idle"
    /\ caller' = "undo"
    /\ undo' = [pc |-> "assert", asserted |-> FALSE, changed_files |-> -1,
                should_continue |-> "unasked", revert_calls |-> 0,
                reverted_before_assert |-> FALSE]
    /\ UNCHANGED <<other_cli_vars, gvi, cdm, default_model>>

\* conf.assert_project() returns inside a project and ends the command outside
UndoAssertProject ==
    /\ caller = "undo"
    /\ undo.pc = "assert"
    /\ \E in_project \in BOOLEAN :
         undo' = [undo EXCEPT !.asserted = in_project,
                              !.pc = IF in_project THEN "changes" ELSE "done"]
    /\ UNCHANGED <<caller, other_cli_vars, gvi, cdm, default_model>>

\* changed_files = repo.get_uncommitted_files() and the confirmation prompt
UndoUncommitted ==
    /\ caller = "undo"
    /\ undo.pc = "changes"
    /\ \E n \in 0..MaxChanged, answer \in {"yes", "no"} :
         LET asked == IF n # 0 THEN answer ELSE "unasked"
         IN undo' = [undo EXCEPT !.changed_files = n,
                                 !.should_continue = asked,
                                 !.pc = IF Reverts(n, asked) THEN "revert" ELSE "done"]
    /\ UNCHANGED <<caller, other_cli_vars, gvi, cdm, default_model>>

\* repo.revert_last_commit(hard=True)
UndoRevert ==
    /\ caller = "undo"
    /\ undo.pc = "revert"
    /\ undo' = [undo EXCEPT !.revert_calls = @ + 1,
                            !.reverted_before_assert = ~undo.asserted,
                            !.pc = "done"]
    /\ UNCHANGED <<caller, other_cli_vars, gvi, cdm, default_model>>

(***************************************************************************)
(* agentstack/cli/cli.py: configure_default_model                          *)
(***************************************************************************)
\* get_available_models() and get_all_available_models()
preferred_models == {"openai/gpt-4o"}

all_models == {"openai/gpt-4o", "groq/llama-3"}

\* what the user types at "Enter the model name"
TypedModels == {"", "my/model"}

other_msg == "Other (enter a model name)"

advanced_msg == "Select from N models for advanced use cases"

return_msg == "Return to preferred models"

\* if advanced_model == return_msg: continue
GoesBack_never(advanced_model) == FALSE

GoesBack(advanced_model) == advanced_model = return_msg

\* agentstack_config = ConfigFile(); if agentstack_config.default_model: return
ConfigureDefaultModelCall ==
    /\ caller = "idle"
    /\ caller' = "configure_default_model"
    /\ cdm' = [pc |-> IF default_model # "" THEN "done" ELSE "menu",
               configured |-> default_model # "", model |-> "unset",
               went_back |-> FALSE, writes |-> 0]
    /\ UNCHANGED <<other_cli_vars, gvi, undo, default_model>>

\* model = inquirer.list_input(choices=preferred_models + [advanced_msg, other_msg])
ConfigureDefaultModelMenu ==
    /\ caller = "configure_default_model"
    /\ cdm.pc = "menu"
    /\ \E model \in preferred_models \cup {advanced_msg, other_msg} :
         cdm' = [cdm EXCEPT !.model = model,
                            !.pc = IF model = other_msg THEN "text"
                                   ELSE IF model = advanced_msg THEN "advanced"
                                   ELSE "write"]
    /\ UNCHANGED <<caller, other_cli_vars, gvi, undo, default_model>>

\* model = inquirer.text(message="Enter the model name"); break
ConfigureDefaultModelText ==
    /\ caller = "configure_default_model"
    /\ cdm.pc = "text"
    /\ \E model \in TypedModels : cdm' = [cdm EXCEPT !.model = model, !.pc = "write"]
    /\ UNCHANGED <<caller, other_cli_vars, gvi, undo, default_model>>

\* advanced_model = inquirer.list_input(choices=[return_msg] + all_models)
ConfigureDefaultModelAdvanced ==
    /\ caller = "configure_default_model"
    /\ cdm.pc = "advanced"
    /\ \E advanced_model \in {return_msg} \cup all_models :
         cdm' = IF GoesBack(advanced_model)
                THEN [cdm EXCEPT !.went_back = TRUE, !.pc = "menu"]
                ELSE [cdm EXCEPT !.model = advanced_model, !.pc = "write"]
    /\ UNCHANGED <<caller, other_cli_vars, gvi, undo, default_model>>

\* with ConfigFile() as agentstack_config: agentstack_config.default_model = model
ConfigureDefaultModelWrite ==
    /\ caller = "configure_default_model"
    /\ cdm.pc = "write"
    /\ default_model' = cdm.model
    /\ cdm' = [cdm EXCEPT !.writes = @ + 1, !.pc = "done"]
    /\ UNCHANGED <<caller, other_cli_vars, gvi, undo>>

\* a cli function has returned or raised
CliReturn ==
    /\ \/ caller = "get_validated_input" /\ gvi.pc = "done"
       \/ caller = "undo" /\ undo.pc = "done"
       \/ caller = "configure_default_model" /\ cdm.pc = "done"
    /\ Reset

NextCli ==
    \/ GetValidatedInputCall \/ GetValidatedInputPrompt
    \/ UndoCall \/ UndoAssertProject \/ UndoUncommitted \/ UndoRevert
    \/ ConfigureDefaultModelCall \/ ConfigureDefaultModelMenu
    \/ ConfigureDefaultModelText \/ ConfigureDefaultModelAdvanced
    \/ ConfigureDefaultModelWrite
    \/ CliReturn

SpecCli == Init /\ [][NextCli]_vars

(***************************************************************************)
(* Properties                                                              *)
(***************************************************************************)
\* the concatenation of the arguments of a sequence of callback calls; with
\* onlyReturned, of the calls that returned normally
ConcatArgs(calls, onlyReturned) ==
    LET F[i \in 0..Len(calls)] ==
            IF i = 0 THEN <<>>
            ELSE IF onlyReturned /\ calls[i].raised THEN F[i - 1]
                 ELSE F[i - 1] \o calls[i].arg.text
    IN F[Len(calls)]

\* a text whose tokens are in the order the child wrote them
InEmissionOrder(t) == \A i, j \in 1..Len(t) : i < j => t[i] <= t[j]

\* C1 as stated: whenever a call ends whose child was launched and exited with
\* code 0, the call returned True, on_complete was invoked exactly once with the
\* accumulated text and on_error was never invoked.
C1_Stated ==
    (pc \in Ended /\ process /\ returncode = 0) =>
        /\ result = "True"
        /\ Len(on_complete_calls) = 1
        /\ on_complete_calls[1].arg = Text(all_lines)
        /\ on_error_calls = <<>>

\* C1 amended: whenever a call ends whose child was launched, whose final drain
\* completed without an exception and whose child exited with code 0,
\* on_complete was invoked exactly once with the accumulated text; if that
\* invocation returned normally, the call returned True and on_error was never
\* invoked.
C1_Amended ==
    (pc \in Ended /\ drained /\ returncode = 0) =>
        /\ Len(on_complete_calls) = 1
        /\ on_complete_calls[1].arg = Text(all_lines)
        /\ ~on_complete_calls[1].raised => (result = "True" /\ on_error_calls = <<>>)

C1_Witness ==
    /\ pc = "returned" /\ drained /\ returncode = 0
    /\ result = "True" /\ all_lines # <<>>
    /\ Len(on_complete_calls) = 1

\* C2 as stated: whenever a call ends whose child was launched and exited with
\* a non-zero code, the call returned False, on_error was invoked exactly once
\* with the accumulated output and on_complete was never invoked.
C2_Stated ==
    (pc \in Ended /\ process /\ returncode # 0) =>
        /\ result = "False"
        /\ Len(on_error_calls) = 1
        /\ on_error_calls[1].arg = Text(all_lines)
        /\ on_complete_calls = <<>>

\* C2 amended: whenever a call ends whose child was launched, whose final drain
\* completed without an exception and whose child exited with a non-zero code,
\* on_complete was never invoked, the call did not return True and the first
\* invocation of on_error is the one of the exit branch, with the accumulated
\* output; if that invocation returned normally it is the only one and the call
\* returned False.
C2_Amended ==
    (pc \in Ended /\ drained /\ returncode # 0) =>
        /\ on_complete_calls = <<>>
        /\ result # "True"
        /\ Len(on_error_calls) >= 1
        /\ on_error_calls[1].arg = Text(all_lines)
        /\ on_error_calls[1].site = "exit"
        /\ ~on_error_calls[1].raised => (Len(on_error_calls) = 1 /\ result = "False")

C2_Witness ==
    /\ pc = "returned" /\ drained /\ returncode = 1
    /\ result = "False" /\ all_lines # <<>>
    /\ Len(on_error_calls) = 1

\* C3: whenever a call ends whose launch failed (no handle was created), it
\* returned False, on_error was invoked exactly once, with a description,
\* on_progress and on_complete were never invoked, no termination was attempted
\* and no exception escaped.
C3_Stated ==
    (pc \in Ended /\ ~process) =>
        /\ pc = "returned"
        /\ result = "False"
        /\ Len(on_error_calls) = 1
        /\ on_error_calls[1].arg = Desc
        /\ on_progress_calls = <<>>
        /\ on_complete_calls = <<>>
        /\ terminate_calls = 0

\* C4: every call that ends, ends by returning a boolean; no exception escapes.
C4_Stated == pc \in Ended => (pc = "returned" /\ result \in {"True", "False"})

\* C5: on_error is invoked at most once in an invocation; the call of the
\* non-zero-exit branch and the call of the outer handler never both occur.
C5_Stated ==
    /\ Len(on_error_calls) <= 1
    /\ ~(\E i, j \in 1..Len(on_error_calls) :
            on_error_calls[i].site = "exit" /\ on_error_calls[j].site = "outer")

\* C6: whenever a call ends that created a process handle, terminate() was
\* attempted on it, and the call ends the way the try/except decided whether or
\* not terminate() raised; the call has no result before the cleanup ran.
C6_TerminateBeforeReturn ==
    /\ (pc \in Ended /\ process) => terminate_calls = 1
    /\ pc \in Ended => result = pending
    /\ pc \notin Ended => result = "none"

C6_Witness ==
    /\ pc = "returned" /\ process /\ terminate_raised
    /\ terminate_calls = 1 /\ result = "True"

\* C7 as stated: on_progress is never called with an empty string, and the text
\* passed to on_complete or to the on_error of the exit branch is the
\* concatenation of the arguments of all on_progress calls.
C7_Stated ==
    /\ \A i \in 1..Len(on_progress_calls) : on_progress_calls[i].arg.text # <<>>
    /\ \A i \in 1..Len(on_complete_calls) :
          on_complete_calls[i].arg.text = ConcatArgs(on_progress_calls, FALSE)
    /\ \A i \in 1..Len(on_error_calls) :
          on_error_calls[i].site = "exit" =>
              on_error_calls[i].arg.text = ConcatArgs(on_progress_calls, FALSE)

\* C7 amended: on_progress is never called with an empty string, and the text
\* passed to on_complete or to the on_error of the exit branch is the
\* concatenation of the arguments of the on_progress calls that returned
\* normally.
C7_Amended ==
    /\ \A i \in 1..Len(on_progress_calls) : on_progress_calls[i].arg.text # <<>>
    /\ \A i \in 1..Len(on_complete_calls) :
          on_complete_calls[i].arg.text = ConcatArgs(on_progress_calls, TRUE)
    /\ \A i \in 1..Len(on_error_calls) :
          on_error_calls[i].site = "exit" =>
              on_error_calls[i].arg.text = ConcatArgs(on_progress_calls, TRUE)

C7_Witness ==
    /\ Len(on_complete_calls) = 1
    /\ on_complete_calls[1].arg.text # <<>>
    /\ \E i \in 1..Len(on_progress_calls) : on_progress_calls[i].raised
    /\ \E i \in 1..Len(on_progress_calls) : ~on_progress_calls[i].raised

\* C8: the accumulated text and the sequence of on_progress arguments are in
\* the order in which the child wrote to its two streams.
C8_Stated ==
    /\ InEmissionOrder(all_lines)
    /\ InEmissionOrder(ConcatArgs(on_progress_calls, FALSE))

\* C9: once the child has exited the call eventually returns True or False,
\* and a call that ended without a read error ended after its child exited.
C9_Stated ==
    /\ (child = "exited") ~> (pc = "returned" /\ result \in {"True", "False"})
    /\ []((pc \in Ended /\ process /\ ~read_failed) => child = "exited")

\* The part of C9 that does not depend on how the call ends: once the child has
\* exited, the call ends (by returning, or by the exception of C4).
EndsOnceChildExited == (child = "exited") ~> (pc \in Ended)

\* the outcomes of install_project's runner invocations
BothFalse == Len(ip_results) = 2 /\ ip_results[1] = "False" /\ ip_results[2] = "False"

SecondIffFirstFalse ==
    /\ Len(ip_results) <= 2
    /\ Len(ip_results) = 2 => ip_results[1] = "False"
    /\ (ip_pc \in {"returned", "raised"} /\ Len(ip_results) >= 1
           /\ ip_results[1] = "False") => Len(ip_results) = 2

TimeoutStep == pc = "read" /\ child = "running" /\ pc' # pc /\ ~read_failed'

\* C11: a read timeout of the polling loop invokes no callback, leaves the
\* accumulated text unchanged, does not end the child, and the loop polls the
\* child again.
C11_TimeoutIsNotAFailure ==
    [][TimeoutStep =>
          /\ pc' = "poll"
          /\ UNCHANGED <<on_progress_calls, on_complete_calls, on_error_calls>>
          /\ UNCHANGED <<all_lines, child, returncode, pending>>]_vars

C11_Witness ==
    /\ read_timed_out /\ pc = "poll" /\ child = "running"
    /\ emitted # <<>> /\ all_lines = <<>> /\ on_error_calls = <<>>

\* a step of the polling loop in which communicate(timeout=1.0) raised an
\* exception that is not a timeout
ReadErrorStep == pc = "read" /\ read_failed' /\ ~read_failed

LastErrorCall == on_error_calls[Len(on_error_calls)]

\* C12 as stated: a read of the polling loop that raises (not a timeout) kills
\* the child and re-raises to the outer handler, and the call returns False
\* with on_error invoked with a description, not with the accumulated output.
C12_Stated ==
    /\ [][ReadErrorStep => (pc' = "handler" /\ child' = "exited")]_vars
    /\ []((pc \in Ended /\ read_failed) =>
            /\ result = "False"
            /\ Len(on_error_calls) = 1
            /\ on_error_calls[1].arg = Desc)

\* C12 amended: a read of the polling loop that raises (not a timeout) aborts
\* the loop without killing the child and without invoking on_error; the child
\* is killed and the exception reaches the outer handler only when the final
\* drain raises as well, and then on_complete is never invoked, the last
\* on_error call is the one of the outer handler, with a description, and the
\* call does not return True (it returns False when that on_error call returns
\* normally).
C12_Amended ==
    /\ [][ReadErrorStep =>
             (pc' = "drain" /\ UNCHANGED <<child, returncode, on_error_calls>>)]_vars
    /\ [][(pc = "drain" /\ pc' = "handler") => child' = "exited"]_vars
    /\ []((pc \in Ended /\ read_failed /\ ~drained) =>
            /\ child = "exited"
            /\ on_complete_calls = <<>>
            /\ result # "True"
            /\ on_error_calls # <<>>
            /\ LastErrorCall.arg = Desc /\ LastErrorCall.site = "outer"
            /\ ~LastErrorCall.raised => result = "False")

C12_Witness ==
    /\ pc = "returned" /\ read_failed /\ ~drained
    /\ returncode = KILLED /\ result = "False"
    /\ Len(on_error_calls) = 1 /\ on_error_calls[1].arg = Desc

\* C13 as stated: after a read of the polling loop raised (not a timeout), the
\* final drain and the exit-code evaluation run, and the call returns True iff
\* the child's exit code is 0, False otherwise.
C13_Stated ==
    (pc \in Ended /\ read_failed) =>
        /\ drained
        /\ result \in {"True", "False"}
        /\ result = "True" <=> returncode = 0

\* C13 amended: a read of the polling loop that raises (not a timeout) only
\* ends the loop: it invokes no callback, leaves the accumulated text and the
\* child alone, and the final drain runs next; if the final drain completes
\* without an exception the exit-code evaluation runs, and if the callback it
\* invokes returns normally the call returns True iff the exit code is 0.
C13_Amended ==
    /\ [][ReadErrorStep =>
             /\ pc' = "drain"
             /\ UNCHANGED <<on_progress_calls, on_complete_calls, on_error_calls>>
             /\ UNCHANGED <<all_lines, child, returncode, pending>>]_vars
    /\ []((pc \in Ended /\ read_failed /\ drained) =>
            /\ returncode = 0 =>
                 /\ Len(on_complete_calls) = 1
                 /\ ~on_complete_calls[1].raised => result = "True"
            /\ returncode # 0 =>
                 /\ on_complete_calls = <<>>
                 /\ on_error_calls # <<>> /\ on_error_calls[1].site = "exit"
                 /\ ~on_error_calls[1].raised => result = "False")

C13_Witness ==
    /\ pc = "returned" /\ read_failed /\ drained
    /\ returncode = 0 /\ result = "True" /\ all_lines # <<>>

\* C14: every piece of text the child wrote is appended to the accumulated text
\* at most once and forwarded at most once by an on_progress call that returns,
\* and exactly once when the exit code is evaluated.
NoTokenTwice(t) == \A i, j \in 1..Len(t) : i # j => t[i] # t[j]

C14_Stated ==
    /\ NoTokenTwice(all_lines)
    /\ NoTokenTwice(ConcatArgs(on_progress_calls, TRUE))
    /\ (pc \in Ended /\ drained) => Len(all_lines) = Len(emitted)

\* the project's virtual-environment directory and the interpreter inside it
VenvDirectory == ProjectDir \o VENV_DIR_NAME

Interpreters(plat) ==
    LET tail == IF plat = "win32" THEN <<"Scripts", "python.exe">> ELSE <<"bin", "python">>
    IN {VENV_DIR_NAME \o tail, VenvDirectory \o tail}

\* C15: every child launched by the runner gets VIRTUAL_ENV equal to the
\* virtual-environment directory, and the '--python' argument built by install,
\* remove, upgrade and install_project is the interpreter inside that directory.
C15_Stated ==
    /\ process => child_env = VenvDirectory
    /\ (caller \in {"direct", "install_project"} /\ python_arg # <<>>) =>
           python_arg \in Interpreters(platform)

\* C16: create_venv launches a child only when the .venv directory does not
\* exist; when it exists the call returns without invoking the runner, and no
\* operation removes the directory, so once it exists no create_venv call
\* launches a process.
C16_NoLaunchWhenVenvExists ==
    /\ [][(caller' = "create_venv" /\ venv_exists) => popen_calls' <= popen_calls]_vars
    /\ [][(caller = "idle" /\ caller' = "create_venv" /\ venv_exists) =>
             (pc' = "skipped" /\ UNCHANGED <<process, child, popen_calls>>)]_vars
    /\ [][venv_exists => venv_exists']_vars

C16_Witness ==
    /\ caller = "create_venv" /\ pc = "skipped"
    /\ venv_exists /\ popen_calls = 0 /\ ~process

\* C17: get_validated_input applies a validate_func it was given for every
\* min_length, uses the not-empty validator only without validate_func and with
\* min_length > 0, and ends after exactly one prompt.
C17_Stated ==
    (caller = "get_validated_input" /\ gvi.pc = "done") =>
        /\ gvi.validate_func # "None" =>
              (gvi.validate = "validate_func" /\ gvi.value.valid)
        /\ gvi.validate = "validator_not_empty" <=>
              (gvi.validate_func = "None" /\ gvi.min_length > 0)
        /\ gvi.prompts = 1
        /\ gvi.outcome \in {"returned", "ValidationError"}

\* C18: undo never calls repo.revert_last_commit when uncommitted files exist
\* and the user does not confirm; it calls it exactly once, after the project
\* assertion, when there are no uncommitted files or the user confirms.
C18_RevertOnlyWhenCleanOrConfirmed ==
    caller = "undo" =>
        /\ undo.revert_calls <= 1
        /\ undo.revert_calls = 1 => (undo.asserted /\ ~undo.reverted_before_assert)
        /\ (undo.changed_files > 0 /\ undo.should_continue # "yes") =>
              undo.revert_calls = 0
        /\ (undo.pc = "done"
              /\ (undo.changed_files = 0 \/ undo.should_continue = "yes")) =>
              undo.revert_calls = 1

C18_Witness ==
    /\ caller = "undo" /\ undo.pc = "done" /\ undo.asserted
    /\ undo.changed_files = MaxChanged /\ undo.should_continue = "no"
    /\ undo.revert_calls = 0

MenuEntries == {other_msg, advanced_msg, return_msg}

====
